---- MODULE Spec2Model ----
(***************************************************************************)
(* Model of horton/scripts/common.py: the retrying HDF5 open               *)
(* (safe_open_h5), the output guard (check_output), the provenance stamp   *)
(* (store_args) and the two result writers (write_script_output,           *)
(* write_part_output).                                                     *)
(*                                                                         *)
(* The HDF5 file is a tree.  A node is named by its path from the root, a  *)
(* sequence of link names (<<>> is the root group "/").  store maps every  *)
(* existing path to "grp" (a group) or to the value of a dataset; attrs    *)
(* maps <<path, attribute name>> to the attribute's value.                 *)
(***************************************************************************)
EXTENDS Integers, Sequences, FiniteSets, TLC

VARIABLES fileExists, store, attrs, clock, proc

vars == <<fileExists, store, attrs, clock, proc>>

-----------------------------------------------------------------------------
(* Bounds and program constants *)

MaxCount == 3
MaxWait == 2
MaxClock == 1
MaxLen == 3
DefaultCount == 10
DefaultWait == 10

Procs == {1}

None == "None"
Bad == "bad"
Grp == "grp"

Root == <<>>
TargetPaths == {Root, <<"res">>, <<"grp_name">>}
ChildNames == {"a", "c"}
Values == {"1", "2"}

(* the count keyword of safe_open_h5 as callers may pass it *)
Counts == (0 - 1)..MaxCount
Waits == {0, MaxWait}

(* how many of the next open attempts the environment lets fail *)
WriterFails == {0, 1, DefaultCount}

(* argparse namespaces: option name -> value or None *)
ArgsRecords ==
    { [alpha |-> "0.5", beta |-> None],
      [alpha |-> None, beta |-> "0.7"] }

(* the namespaces of horton-wpart.py and horton-cpart.py also have --debug *)
PartArgsRecords ==
    { [alpha |-> "0.5", beta |-> None, debug |-> "True"],
      [alpha |-> None, beta |-> "0.7", debug |-> "False"] }

(* the file as earlier jobs left it: no file, or a file whose root holds *)
(* datasets                                                              *)
InitFiles ==
    { <<>>,
      (<<"a">> :> "1"),
      (<<"a">> :> "1") @@ (<<"c">> :> "1") }

(* named values in caller order: <<name, value>>, names distinct *)
ResultsSet ==
    {<<>>}
    \cup { <<<<n, v>>>> : n \in ChildNames, v \in Values }
    \cup { <<<<"a", "1">>, <<"c", "2">>>>,
           <<<<"a", Bad>>, <<"c", "2">>>>,
           <<<<"a", "1">>, <<"c", Bad>>>> }

(* the cache of the partitioning object: key tuple -> value *)
CacheKeys == { <<"a">>, <<"x", "y">> }
CacheLoad(key) == IF key = <<"a">> THEN "7" ELSE "8"

-----------------------------------------------------------------------------
(* HDF5 tree primitives (h5py) *)

IsPrefix(p, q) == Len(p) <= Len(q) /\ SubSeq(q, 1, Len(p)) = p

Restrict(f, S) == [x \in S |-> f[x]]

(* "name in f" *)
Contains(st, g) == g = Root \/ g \in DOMAIN st

(* grp.keys() *)
Keys(st, g) ==
    { q[Len(q)] : q \in { r \in DOMAIN st : Len(r) = Len(g) + 1 /\ IsPrefix(g, r) } }

(* del f[path]: unlink the node with everything below it *)
DelNode(st, p) == Restrict(st, { q \in DOMAIN st : ~IsPrefix(p, q) })

DelAttrs(at, p) == Restrict(at, { x \in DOMAIN at : ~IsPrefix(p, x[1]) })

(* create a node (group or dataset) at a free path *)
PutNode(st, p, v) == (p :> v) @@ st

SetAttr(at, g, name, v) == (<<g, name>> :> v) @@ at

RECURSIVE Join(_, _)
Join(s, sep) ==
    IF Len(s) = 0 THEN ""
    ELSE IF Len(s) = 1 THEN s[1]
    ELSE s[1] \o sep \o Join(Tail(s), sep)

-----------------------------------------------------------------------------
(* store_args *)

Argv == <<"horton-wpart.py", "out.h5">>
Cwd == "/work"

IsoFormat(t) == "2013-01-01T00:00:0" \o ToString(t)

(* faulty variant: the test "val is not None" is missing *)
RECURSIVE SetArgAttrs_SetsNone(_, _, _, _)
SetArgAttrs_SetsNone(at, g, args, keys) ==
    IF keys = {} THEN at
    ELSE LET key == CHOOSE x \in keys : TRUE
         IN  SetAttr(SetArgAttrs_SetsNone(at, g, args, keys \ {key}),
                     g, "arg_" \o key, args[key])

RECURSIVE SetArgAttrs(_, _, _, _)
SetArgAttrs(at, g, args, keys) ==
    IF keys = {} THEN at
    ELSE LET key == CHOOSE x \in keys : TRUE
             rest == SetArgAttrs(at, g, args, keys \ {key})
         IN  IF args[key] # None
             THEN SetAttr(rest, g, "arg_" \o key, args[key])
             ELSE rest

(* faulty variant: the pwd attribute is not written *)
store_args_NoPwd(at, g, args, now) ==
    LET a1 == SetAttr(at, g, "cmdline", Join(Argv, " "))
        a3 == SetAttr(a1, g, "datetime", IsoFormat(now))
    IN  SetArgAttrs(a3, g, args, DOMAIN args)

store_args(at, g, args, now) ==
    LET a1 == SetAttr(at, g, "cmdline", Join(Argv, " "))
        a2 == SetAttr(a1, g, "pwd", Cwd)
        a3 == SetAttr(a2, g, "datetime", IsoFormat(now))
    IN  SetArgAttrs(a3, g, args, DOMAIN args)

-----------------------------------------------------------------------------
(* Process state *)

NoArgs == [alpha |-> None, beta |-> None]

Idle ==
    [ pc |-> "idle", op |-> "none",
      grp_name |-> Root, results |-> <<>>, args |-> NoArgs,
      overwrite |-> FALSE, mode |-> "a", count |-> 0, wait |-> 0,
      counter |-> 0, fails |-> 0, failsLeft |-> 0, userRaises |-> FALSE,
      handle |-> "none", grp |-> Root, todo |-> {}, k |-> 0,
      exc |-> None, ret |-> None,
      arg_h5 |-> <<>>, path_optional |-> TRUE, parsed |-> <<>>,
      stage |-> "free", sawDone |-> {},
      attempts |-> 0, sleeps |-> 0, dur |-> 0, yields |-> 0, closes |-> 0,
      preFile |-> FALSE, preStore |-> <<>>, preAttrs |-> <<>> ]

(* a process is one script, run again and again with the output location *)
(* of its command line                                                    *)
Init ==
    /\ \E st \in InitFiles :
         /\ store = st
         /\ fileExists = (st # <<>>)
    /\ attrs = <<>>
    /\ clock = 0
    /\ \E g \in TargetPaths : proc = [p \in Procs |-> [Idle EXCEPT !.grp_name = g]]

CanStart(p) == proc[p].pc = "idle"

Done(p) == proc[p].pc = "done"

(* the writers that have returned normally *)
Finished ==
    { q \in DOMAIN proc :
        /\ proc[q].op \in {"write_script_output", "write_part_output"}
        /\ proc[q].pc = "done"
        /\ proc[q].exc = None }

(* the locals at the call; stage is the place of the script around its  *)
(* calls, and sawDone the writers of the other processes that had        *)
(* returned when the script called check_output                          *)
Fresh(p, op) ==
    [Idle EXCEPT !.op = op, !.grp_name = proc[p].grp_name,
                 !.preFile = fileExists, !.preStore = store, !.preAttrs = attrs,
                 !.stage = proc[p].stage,
                 !.sawDone = IF op = "check_output" THEN Finished \ {p}
                             ELSE proc[p].sawDone]

Set(p, r) == proc' = [proc EXCEPT ![p] = r]

-----------------------------------------------------------------------------
(* safe_open_h5 *)

(* lines 220-221: wait and count are popped from the keyword arguments *)
EnterOpen(r, mode, count, wait, fails) ==
    [r EXCEPT !.pc = "open", !.mode = mode, !.count = count, !.wait = wait,
              !.counter = count, !.fails = fails, !.failsLeft = fails]

(* h5.File(name, mode) succeeds unless another process is in the way;   *)
(* mode 'r' needs the file to exist                                     *)
OpenSucceeds(r) == r.failsLeft = 0 /\ (r.mode = "r" => fileExists)

(* faulty variant: the budget test is "== 0" *)
Exhausted_EqualZero(counter) == counter - 1 = 0

(* faulty variant: the budget test is "< 0" *)
Exhausted_OffByOne(counter) == counter - 1 < 0

(* line 227-228: counter -= 1; if counter <= 0: raise *)
Exhausted(counter) == counter - 1 <= 0

(* faulty variant: the sleep is drawn from [0, 2 * wait] *)
Durations_Doubled(wait) == {0, wait, 2 * wait}

(* line 230: the sampled points of np.random.uniform(0, wait) *)
Durations(wait) == {0, wait \div 2, wait}

(* faulty variant: the yield sits inside the try of the retry loop, so an *)
(* exception of the caller's block starts another pass                    *)
OnExit_Retry(exc) == IF exc # None THEN "open" ELSE "close"

(* faulty variant: f.close() is a plain statement after the yield, not a finally *)
OnExit_NoFinally(exc) == IF exc # None THEN "done" ELSE "close"

(* lines 232-235, try: yield f / finally: f.close(): where control goes *)
(* when the caller's block is left, with or without an exception        *)
OnExit(exc) == "close"

(* the statement after "with safe_open_h5(...) as f:" of each caller *)
BodyEntry(op) ==
    CASE op = "acquire" -> "use"
      [] op = "check_output" -> "inspect"
      [] OTHER -> "lookup"

(* lines 222-225: one pass of the loop whose open succeeds; line 233 yields *)
OpenOk(p) ==
    LET r == proc[p] IN
    /\ r.pc = "open"
    /\ OpenSucceeds(r)
    /\ fileExists' = TRUE
    /\ Set(p, [r EXCEPT !.pc = BodyEntry(r.op), !.handle = "open",
                        !.attempts = @ + 1, !.yields = @ + 1, !.dur = 0])
    /\ UNCHANGED <<store, attrs, clock>>

(* faulty variant: "break" in place of "raise" when the budget is used up *)
OpenFail_Break(p) ==
    LET r == proc[p] IN
    /\ r.pc = "open"
    /\ ~OpenSucceeds(r)
    /\ Set(p, [r EXCEPT !.attempts = @ + 1,
                        !.counter = @ - 1,
                        !.failsLeft = IF @ > 0 THEN @ - 1 ELSE 0,
                        !.dur = 0,
                        !.pc = IF Exhausted(r.counter) THEN BodyEntry(r.op)
                               ELSE "sleep"])
    /\ UNCHANGED <<fileExists, store, attrs, clock>>

(* lines 226-229: one pass of the loop whose open raises *)
OpenFail(p) ==
    LET r == proc[p] IN
    /\ r.pc = "open"
    /\ ~OpenSucceeds(r)
    /\ Set(p, [r EXCEPT !.attempts = @ + 1,
                        !.counter = @ - 1,
                        !.failsLeft = IF @ > 0 THEN @ - 1 ELSE 0,
                        !.dur = 0,
                        !.pc = IF Exhausted(r.counter) THEN "done" ELSE "sleep",
                        !.exc = IF Exhausted(r.counter) THEN "OpenError" ELSE None])
    /\ UNCHANGED <<fileExists, store, attrs, clock>>

(* lines 230-231: time.sleep(np.random.uniform(0, wait)); continue *)
Sleep(p) ==
    LET r == proc[p] IN
    /\ r.pc = "sleep"
    /\ \E d \in Durations(r.wait) :
         Set(p, [r EXCEPT !.pc = "open", !.sleeps = @ + 1, !.dur = d])
    /\ UNCHANGED <<fileExists, store, attrs, clock>>

(* lines 234-235: finally: f.close(); the exception in flight, if any, *)
(* goes on to the caller                                                *)
Close(p) ==
    LET r == proc[p] IN
    /\ r.pc = "close"
    /\ Set(p, [r EXCEPT !.pc = "done", !.handle = "closed", !.closes = @ + 1])
    /\ UNCHANGED <<fileExists, store, attrs, clock>>

(* a caller's own "with safe_open_h5(name, mode, count=.., wait=..)" *)
CallAcquire(p) ==
    /\ CanStart(p)
    /\ \E count \in Counts, wait \in Waits, fails \in 0..MaxCount,
          raises \in BOOLEAN :
         Set(p, [EnterOpen(Fresh(p, "acquire"), "a", count, wait, fails)
                   EXCEPT !.userRaises = raises])
    /\ UNCHANGED <<fileExists, store, attrs, clock>>

(* the caller's block under the handle: returns, or raises *)
UseHandle(p) ==
    LET r == proc[p] IN
    /\ r.pc = "use"
    /\ LET e == IF r.userRaises THEN "UserError" ELSE None
       IN  Set(p, [r EXCEPT !.pc = OnExit(e), !.exc = e])
    /\ UNCHANGED <<fileExists, store, attrs, clock>>


-----------------------------------------------------------------------------
(* check_output *)

(* faulty variant: the test takes every group for empty *)
LenOfComparison_Empty(st, g) == "False"

(* line 165, "len(f[grp_name] > 0)": the comparison of a group with 0   *)
(* gives a bool (Python 2) or raises TypeError (Python 3), and len() of *)
(* a bool raises TypeError: the expression never yields a value         *)
LenOfComparison(st, g) == "TypeError"

(* faulty variant: no os.path.isfile test, and the file opened in the default mode *)
CallCheckOutput_NoIsFile(p) ==
    /\ CanStart(p)
    /\ \E ow \in BOOLEAN, fails \in WriterFails :
         Set(p, EnterOpen([Fresh(p, "check_output") EXCEPT !.overwrite = ow],
                          "a", DefaultCount, DefaultWait, fails))
    /\ UNCHANGED <<fileExists, store, attrs, clock>>

(* line 163: os.path.isfile(fn_h5); line 164 enters safe_open_h5(fn_h5, 'r'); *)
(* line 174 otherwise                                                         *)
CallCheckOutput(p) ==
    /\ CanStart(p)
    /\ \E ow \in BOOLEAN, fails \in WriterFails :
         LET r == [Fresh(p, "check_output") EXCEPT !.overwrite = ow] IN
         IF fileExists
         THEN Set(p, EnterOpen(r, "r", DefaultCount, DefaultWait, fails))
         ELSE Set(p, [r EXCEPT !.pc = "done", !.ret = "False"])
    /\ UNCHANGED <<fileExists, store, attrs, clock>>

(* lines 165-174 *)
CheckInspect(p) ==
    LET r == proc[p] IN
    /\ r.pc = "inspect"
    /\ IF Contains(store, r.grp_name)
       THEN IF LenOfComparison(store, r.grp_name) = "TypeError"
            THEN Set(p, [r EXCEPT !.pc = OnExit("TypeError"), !.exc = "TypeError"])
            ELSE IF LenOfComparison(store, r.grp_name) = "True"
            THEN Set(p, [r EXCEPT !.pc = OnExit(None),
                                  !.ret = IF r.overwrite THEN "False" ELSE "True"])
            ELSE Set(p, [r EXCEPT !.pc = OnExit(None), !.ret = "False"])
       ELSE Set(p, [r EXCEPT !.pc = OnExit(None), !.ret = "False"])
    /\ UNCHANGED <<fileExists, store, attrs, clock>>

-----------------------------------------------------------------------------
(* write_script_output and write_part_output *)

(* dump_hdf5_low(grp, name, value): the value becomes the child "name" of *)
(* grp; an unsupported value is rejected.  Where grp already has a child   *)
(* of that name the call either replaces it or raises (Dump takes both).   *)
DumpRejects(v) == v = Bad

dump_hdf5_low(st, g, name, v) == PutNode(DelNode(st, g \o <<name>>), g \o <<name>>, v)

Names(results) == { results[i][1] : i \in 1..Len(results) }

(* line 307 / line 261: with safe_open_h5(fn_h5) as f.  The results (names *)
(* and part for write_part_output) and args arguments are first read in    *)
(* the body, lines 315, 319 / 269, 273: they are drawn where the body      *)
(* starts, in Lookup                                                       *)
CallWriteScriptOutput(p) ==
    /\ CanStart(p)
    /\ \E fails \in WriterFails :
         Set(p, EnterOpen(Fresh(p, "write_script_output"),
                          "a", DefaultCount, DefaultWait, fails))
    /\ UNCHANGED <<fileExists, store, attrs, clock>>

CallWritePartOutput(p) ==
    /\ CanStart(p)
    /\ \E fails \in WriterFails :
         Set(p, EnterOpen(Fresh(p, "write_part_output"),
                          "a", DefaultCount, DefaultWait, fails))
    /\ UNCHANGED <<fileExists, store, attrs, clock>>

(* the group object bound to grp when grp_name is in f:                 *)
(* line 310 f[grp_name]; line 264 f['grp_name']                         *)
LookupPath(op, g) == IF op = "write_part_output" THEN <<"grp_name">> ELSE g

(* faulty variant: store_args runs before the loop over the values *)
AfterClear_StampFirst(r) == "stamp"

(* after the loop over grp.keys() *)
AfterClear(r) == IF Len(r.results) = 0 THEN "stamp" ELSE "dump"

ArgsOf(op) == IF op = "write_part_output" THEN PartArgsRecords ELSE ArgsRecords

(* lines 309-310, 313-314 / 263-264, 267-268 *)
Lookup(p) ==
    \E res \in ResultsSet, a \in ArgsOf(proc[p].op) :
    LET r == [proc[p] EXCEPT !.results = res, !.args = a]
        g == r.grp_name
        b == LookupPath(r.op, g)
    IN
    /\ r.pc = "lookup"
    /\ IF Contains(store, g)
       THEN /\ IF Contains(store, b)
               THEN Set(p, [r EXCEPT !.grp = b, !.todo = Keys(store, b), !.k = 1,
                               !.pc = IF Keys(store, b) = {} THEN AfterClear(r)
                                      ELSE "clear"])
               ELSE Set(p, [r EXCEPT !.pc = OnExit("KeyError"), !.exc = "KeyError"])
            /\ UNCHANGED store
       ELSE /\ store' = PutNode(store, g, Grp)
            /\ Set(p, [r EXCEPT !.grp = g, !.k = 1, !.pc = AfterClear(r)])
    /\ UNCHANGED <<fileExists, attrs, clock>>

(* the path that "del f[key]" unlinks: key is looked up in the file f, *)
(* lines 311-312 / 265-266                                             *)
DelTarget(g, key) == <<key>>

(* one pass of "for key in grp.keys(): del f[key]" *)
ClearKey(p) ==
    LET r == proc[p] IN
    /\ r.pc = "clear"
    /\ \E key \in r.todo :
         LET t == DelTarget(r.grp, key) IN
         IF t \in DOMAIN store
         THEN /\ store' = DelNode(store, t)
              /\ attrs' = DelAttrs(attrs, t)
              /\ Set(p, [r EXCEPT !.todo = @ \ {key},
                            !.pc = IF r.todo = {key} THEN AfterClear(r) ELSE "clear"])
         ELSE /\ Set(p, [r EXCEPT !.pc = OnExit("KeyError"), !.exc = "KeyError"])
              /\ UNCHANGED <<store, attrs>>
    /\ UNCHANGED <<fileExists, clock>>

(* one pass of "for key, value in results: dump_hdf5_low(grp, key, value)" *)
(* lines 315-316 / 269-270                                                 *)
Dump(p) ==
    LET r == proc[p]
        name == r.results[r.k][1]
        v == r.results[r.k][2]
    IN
    /\ r.pc = "dump"
    /\ IF DumpRejects(v)
       THEN /\ Set(p, [r EXCEPT !.pc = OnExit("SerializationFailure"),
                                !.exc = "SerializationFailure"])
            /\ UNCHANGED <<store, attrs>>
       ELSE \/ /\ store' = dump_hdf5_low(store, r.grp, name, v)
               /\ attrs' = DelAttrs(attrs, r.grp \o <<name>>)
               /\ Set(p, [r EXCEPT !.k = @ + 1,
                             !.pc = IF r.k = Len(r.results) THEN "stamp" ELSE "dump"])
            \/ /\ r.grp \o <<name>> \in DOMAIN store
               /\ Set(p, [r EXCEPT !.pc = OnExit("NameExists"), !.exc = "NameExists"])
               /\ UNCHANGED <<store, attrs>>
    /\ UNCHANGED <<fileExists, clock>>

(* line 319 / 273: store_args(args, grp) *)
Stamp(p) ==
    LET r == proc[p] IN
    /\ r.pc = "stamp"
    /\ attrs' = store_args(attrs, r.grp, r.args, clock)
    /\ Set(p, [r EXCEPT !.pc = IF r.op = "write_part_output" /\ r.args.debug = "True"
                               THEN "debug" ELSE OnExit(None)])
    /\ UNCHANGED <<fileExists, store, clock>>

(* line 281: '_'.join(str(x) for x in debug_key) *)
DebugName(key) == Join(key, "_")

(* faulty variant: the test "debug_name not in names" is missing *)
DebugKeys_All(names) == CacheKeys

(* line 282: the cache keys that are dumped *)
DebugKeys(names) == { key \in CacheKeys : DebugName(key) \notin names }

RECURSIVE PutDebug(_, _, _)
PutDebug(st, d, keys) ==
    IF keys = {} THEN st
    ELSE LET key == CHOOSE x \in keys : TRUE
         IN  PutNode(PutDebug(st, d, keys \ {key}), d \o <<DebugName(key)>>, CacheLoad(key))

(* lines 277-283 *)
DebugDump(st, g, names) ==
    LET d == g \o <<"debug">>
    IN  PutDebug(PutNode(DelNode(st, d), d, Grp), d, DebugKeys(names))

Debug(p) ==
    LET r == proc[p] IN
    /\ r.pc = "debug"
    /\ store' = DebugDump(store, r.grp, Names(r.results))
    /\ attrs' = DelAttrs(attrs, r.grp \o <<"debug">>)
    /\ Set(p, [r EXCEPT !.pc = OnExit(None)])
    /\ UNCHANGED <<fileExists, clock>>

(* the caller has the result or the exception: the frame is gone *)
Return(p) ==
    /\ Done(p)
    /\ Set(p, [Idle EXCEPT !.grp_name = proc[p].grp_name])
    /\ UNCHANGED <<fileExists, store, attrs, clock>>

(* time passes; datetime.now() is read once per call, in store_args, so *)
(* the passing of time during a call is not told apart                  *)
Tick ==
    /\ \A p \in Procs : CanStart(p)
    /\ clock < MaxClock
    /\ clock' = clock + 1
    /\ UNCHANGED <<fileExists, store, attrs, proc>>

-----------------------------------------------------------------------------

Step(p) ==
    \/ CallCheckOutput(p)
    \/ CallWriteScriptOutput(p)
    \/ CallWritePartOutput(p)
    \/ OpenOk(p)
    \/ OpenFail(p)
    \/ Sleep(p)
    \/ CheckInspect(p)
    \/ Lookup(p)
    \/ ClearKey(p)
    \/ Dump(p)
    \/ Stamp(p)
    \/ Debug(p)
    \/ Close(p)
    \/ Return(p)

Next == Tick \/ \E p \in Procs : Step(p)

Spec == Init /\ [][Next]_vars

(* safe_open_h5 on its own, under a caller's block *)
StepOpen(p) ==
    \/ CallAcquire(p)
    \/ OpenOk(p)
    \/ OpenFail(p)
    \/ Sleep(p)
    \/ UseHandle(p)
    \/ Close(p)
    \/ Return(p)

NextOpen == \E p \in Procs : StepOpen(p)

SpecOpen == Init /\ [][NextOpen]_vars

(* the process runs: an open returns or raises, a sleep ends, the block *)
(* under the handle is left                                             *)
SpecOpenFair == SpecOpen /\ WF_vars(NextOpen)

-----------------------------------------------------------------------------
(* Two jobs with the same output group: each script calls check_output   *)
(* without --overwrite and writes its results unless it is told to skip  *)
(* (horton-esp-cost.py and the other scripts: "if check_output(...):     *)
(* return", then the computation, then write_script_output).  Nothing    *)
(* in the module keeps the two apart: their steps interleave freely.     *)
(* The opens succeed at once here; the retries are those of SpecOpen and *)
(* Spec.                                                                 *)

GuardProcs == {1, 2}

GuardFails == {0}

InitGuard ==
    /\ \E st \in InitFiles :
         /\ store = st
         /\ fileExists = (st # <<>>)
    /\ attrs = <<>>
    /\ clock = 0
    /\ \E g \in TargetPaths :
         proc = [p \in GuardProcs |-> [Idle EXCEPT !.grp_name = g, !.stage = "start"]]

GuardCheck(p) ==
    /\ proc[p].stage = "start"
    /\ CallCheckOutput(p)
    /\ ~proc'[p].overwrite
    /\ proc'[p].fails \in GuardFails

(* the script has the answer of check_output: it goes on, or it ends *)
GuardReturn(p) ==
    /\ Done(p)
    /\ proc[p].op = "check_output"
    /\ Set(p, [Idle EXCEPT !.grp_name = proc[p].grp_name,
                           !.sawDone = proc[p].sawDone,
                           !.stage = IF proc[p].exc = None /\ proc[p].ret = "False"
                                     THEN "proceed" ELSE "stop"])
    /\ UNCHANGED <<fileExists, store, attrs, clock>>

GuardWrite(p) ==
    /\ proc[p].stage = "proceed"
    /\ CallWriteScriptOutput(p)
    /\ proc'[p].fails \in GuardFails

StepGuard(p) ==
    \/ GuardCheck(p)
    \/ GuardReturn(p)
    \/ GuardWrite(p)
    \/ OpenOk(p)
    \/ Close(p)
    \/ CheckInspect(p)
    \/ Lookup(p)
    \/ ClearKey(p)
    \/ Dump(p)
    \/ Stamp(p)

NextGuard == \E p \in GuardProcs : StepGuard(p)

SpecGuard == InitGuard /\ [][NextGuard]_vars

-----------------------------------------------------------------------------
(* parse_h5.  A string is the sequence of its characters. *)

Chars == {"f", "g", ":"}

(* the command line arguments: every string of at most MaxLen characters *)
ArgStrings == UNION { [1..n -> Chars] : n \in 0..MaxLen }

(* arg_h5.count(':') *)
RECURSIVE Count(_, _)
Count(str, ch) ==
    IF Len(str) = 0 THEN 0
    ELSE (IF Head(str) = ch THEN 1 ELSE 0) + Count(Tail(str), ch)

(* arg_h5.split(':'): the pieces between the separators, in order *)
RECURSIVE Split(_, _)
Split(str, ch) ==
    IF Len(str) = 0 THEN << <<>> >>
    ELSE LET rest == Split(Tail(str), ch) IN
         IF Head(str) = ch
         THEN << <<>> >> \o rest
         ELSE << <<Head(str)>> \o Head(rest) >> \o Tail(rest)

(* faulty variant: the required mode shares the branches of the optional one *)
parse_h5_AlwaysOptional(arg_h5, path_optional) ==
    IF Count(arg_h5, ":") = 1
    THEN [exc |-> None, value |-> Split(arg_h5, ":")]
    ELSE IF Count(arg_h5, ":") = 0
    THEN [exc |-> None, value |-> <<arg_h5, <<"/">> >>]
    ELSE [exc |-> "ValueError", value |-> <<>>]

(* lines 134-145 *)
parse_h5(arg_h5, path_optional) ==
    IF path_optional
    THEN IF Count(arg_h5, ":") = 1
         THEN [exc |-> None, value |-> Split(arg_h5, ":")]
         ELSE IF Count(arg_h5, ":") = 0
         THEN [exc |-> None, value |-> <<arg_h5, <<"/">> >>]
         ELSE [exc |-> "ValueError", value |-> <<>>]
    ELSE IF Count(arg_h5, ":") = 1
         THEN [exc |-> None, value |-> Split(arg_h5, ":")]
         ELSE [exc |-> "ValueError", value |-> <<>>]

(* a script parses one of its arguments *)
CallParseH5(p) ==
    /\ CanStart(p)
    /\ \E a \in ArgStrings, opt \in BOOLEAN :
         Set(p, [Fresh(p, "parse_h5") EXCEPT
                   !.pc = "done", !.arg_h5 = a, !.path_optional = opt,
                   !.exc = parse_h5(a, opt).exc,
                   !.parsed = parse_h5(a, opt).value])
    /\ UNCHANGED <<fileExists, store, attrs, clock>>

StepParse(p) == CallParseH5(p) \/ Return(p)

NextParse == \E p \in Procs : StepParse(p)

SpecParse == Init /\ [][NextParse]_vars

-----------------------------------------------------------------------------
(* Properties *)

Writers == {"write_script_output", "write_part_output"}

AttrOf(at, g, name) == IF <<g, name>> \in DOMAIN at THEN at[<<g, name>>] ELSE "absent"

GroupAttrs(at, g) == Restrict(at, { x \in DOMAIN at : x[1] = g })

DropDatetime(at, g) == Restrict(at, DOMAIN at \ {<<g, "datetime">>})

(* the call has run store_args and nothing has failed *)
Stamped(p) ==
    /\ proc[p].op \in Writers
    /\ proc[p].exc = None
    /\ proc[p].pc \in {"debug", "close", "done"}

(* the call has written the debug subgroup and nothing has failed *)
DebugDone(p) ==
    /\ proc[p].op = "write_part_output"
    /\ proc[p].exc = None
    /\ proc[p].pc \in {"close", "done"}
    /\ proc[p].args.debug = "True"

(* the reserved child a debugging write adds to the named values *)
DebugChild(r) ==
    IF r.op = "write_part_output" /\ r.args.debug = "True" THEN {"debug"} ELSE {}

(* every node but the root hangs under a group *)
WellFormed ==
    \A q \in DOMAIN store :
        Len(q) > 1 =>
            /\ SubSeq(q, 1, Len(q) - 1) \in DOMAIN store
            /\ store[SubSeq(q, 1, Len(q) - 1)] = Grp

(* C1: with count >= 1 and an open that fails on every attempt,          *)
(* safe_open_h5 yields no handle, and ends by raising the open error      *)
(* after exactly count attempts and count - 1 sleeps (none for count = 1) *)
C1_ExhaustedAfterCountAttempts ==
    \A p \in Procs :
        LET r == proc[p] IN
        (r.op = "acquire" /\ r.count >= 1 /\ r.fails >= r.count) =>
            /\ r.yields = 0
            /\ r.handle = "none"
            /\ r.attempts <= r.count
            /\ Done(p) =>
                 /\ r.exc = "OpenError"
                 /\ r.attempts = r.count
                 /\ r.sleeps = r.count - 1
                 /\ r.closes = 0

C1_Witness ==
    \E p \in Procs :
        /\ Done(p)
        /\ proc[p].op = "acquire"
        /\ proc[p].count = MaxCount
        /\ proc[p].fails >= MaxCount
        /\ proc[p].exc = "OpenError"
        /\ proc[p].attempts = MaxCount
        /\ proc[p].sleeps = MaxCount - 1

(* C2: after a successful write the children of the target group are    *)
(* exactly the names of that write (and the debug subgroup of a          *)
(* debugging write)                                                      *)
C2_ReplaceInPlace ==
    \A p \in Procs :
        LET r == proc[p] IN
        (Done(p) /\ r.op \in Writers /\ r.exc = None) =>
            Keys(store, r.grp_name) \ DebugChild(r) = Names(r.results)

(* C3: check_output, once the file could be opened, returns without      *)
(* raising, and returns True exactly when the file exists, holds the     *)
(* group, the group has a child and overwrite is false                   *)
C3_SkipIffNonEmptyAndNoOverwrite ==
    \A p \in Procs :
        LET r == proc[p] IN
        (Done(p) /\ r.op = "check_output" /\ r.exc # "OpenError") =>
            /\ r.exc = None
            /\ r.ret = "True" <=>
                 /\ r.preFile
                 /\ Contains(store, r.grp_name)
                 /\ Keys(store, r.grp_name) # {}
                 /\ ~r.overwrite

(* C4: a handle that safe_open_h5 yields is closed exactly once, on      *)
(* return and on an exception alike; nothing is closed when the open     *)
(* failed; check_output and the writers end with no open handle          *)
C4_HandleClosedExactlyOnce ==
    \A p \in Procs :
        LET r == proc[p] IN
        /\ r.yields <= 1
        /\ r.closes <= r.yields
        /\ r.handle = "open" <=> (r.yields = 1 /\ r.closes = 0)
        /\ Done(p) => (r.handle # "open" /\ r.closes = r.yields)
        /\ r.exc = "OpenError" => (r.yields = 0 /\ r.closes = 0)

C4_Witness ==
    \E p \in Procs :
        /\ Done(p)
        /\ proc[p].op \in Writers
        /\ proc[p].exc = "KeyError"
        /\ proc[p].yields = 1
        /\ proc[p].closes = 1
        /\ proc[p].handle = "closed"

(* C5: store_args sets arg_x to the value of every non-null argument x,  *)
(* leaves arg_x as it was for every null x, and sets cmdline, pwd and    *)
(* datetime; a second call with the same arguments changes nothing but   *)
(* datetime                                                              *)
C5_StampArgs ==
    \A p \in Procs :
        LET r == proc[p]
            g == r.grp
        IN
        Stamped(p) =>
            /\ \A x \in DOMAIN r.args :
                 IF r.args[x] # None
                 THEN AttrOf(attrs, g, "arg_" \o x) = r.args[x]
                 ELSE AttrOf(attrs, g, "arg_" \o x) = AttrOf(r.preAttrs, g, "arg_" \o x)
            /\ AttrOf(attrs, g, "cmdline") = "horton-wpart.py out.h5"
            /\ AttrOf(attrs, g, "pwd") = "/work"
            /\ AttrOf(attrs, g, "datetime") = IsoFormat(clock)
            /\ \A a \in ArgsOf(r.op), t1, t2 \in 0..MaxClock :
                 DropDatetime(store_args(store_args(attrs, g, a, t1), g, a, t2), g)
                   = DropDatetime(store_args(attrs, g, a, t1), g)

(* a null argument after a run that recorded it: the old arg_alpha stays *)
C5_Witness ==
    \E p \in Procs :
        /\ Stamped(p)
        /\ Done(p)
        /\ proc[p].args.alpha = None
        /\ proc[p].args.beta = "0.7"
        /\ AttrOf(attrs, proc[p].grp, "arg_alpha") = "0.5"
        /\ AttrOf(attrs, proc[p].grp, "arg_beta") = "0.7"

(* C6: the debug dump of write_part_output writes nothing under a        *)
(* synthesized name that is one of the names: no such child in the debug *)
(* subgroup, and the primary child keeps the value of the write          *)
C6_DebugSkipsNamed ==
    \A p \in Procs :
        LET r == proc[p] IN
        DebugDone(p) =>
            \A key \in CacheKeys :
                DebugName(key) \in Names(r.results) =>
                    /\ r.grp \o <<"debug", DebugName(key)>> \notin DOMAIN store
                    /\ \A i \in 1..Len(r.results) :
                         r.results[i][1] = DebugName(key) =>
                             /\ r.grp \o <<DebugName(key)>> \in DOMAIN store
                             /\ store[r.grp \o <<DebugName(key)>>] = r.results[i][2]

C6_Witness ==
    \E p \in Procs :
        /\ DebugDone(p)
        /\ Done(p)
        /\ "a" \in Names(proc[p].results)
        /\ <<"a">> \in CacheKeys
        /\ proc[p].grp \o <<"debug", "x_y">> \in DOMAIN store
        /\ store[proc[p].grp \o <<"debug", "x_y">>] = "8"

(* C7: a successful write to a group that did not exist leaves the group *)
(* with one child per name holding the value (plus the debug subgroup of *)
(* a debugging write), cmdline, pwd and datetime, arg_x for every        *)
(* non-null x and no arg_x for a null x                                  *)
C7_FreshGroupEndToEnd ==
    \A p \in Procs :
        LET r == proc[p]
            g == r.grp_name
        IN
        (Done(p) /\ r.op \in Writers /\ r.exc = None /\ ~Contains(r.preStore, g)) =>
            /\ store[g] = Grp
            /\ Keys(store, g) = Names(r.results) \cup DebugChild(r)
            /\ \A i \in 1..Len(r.results) :
                 store[g \o <<r.results[i][1]>>] = r.results[i][2]
            /\ AttrOf(attrs, g, "cmdline") # "absent"
            /\ AttrOf(attrs, g, "pwd") # "absent"
            /\ AttrOf(attrs, g, "datetime") # "absent"
            /\ \A x \in DOMAIN r.args :
                 AttrOf(attrs, g, "arg_" \o x)
                   = IF r.args[x] # None THEN r.args[x] ELSE "absent"

C7_Witness ==
    \E p \in Procs :
        /\ Done(p)
        /\ proc[p].op = "write_script_output"
        /\ proc[p].exc = None
        /\ proc[p].grp_name = <<"res">>
        /\ ~Contains(proc[p].preStore, <<"res">>)
        /\ proc[p].results = <<<<"a", "1">>, <<"c", "2">>>>
        /\ proc[p].args = [alpha |-> "0.5", beta |-> None]
        /\ AttrOf(attrs, <<"res">>, "arg_alpha") = "0.5"
        /\ AttrOf(attrs, <<"res">>, "arg_beta") = "absent"

(* C8: when the dump of the k-th named value fails, the values before it *)
(* are in the target group, the values after it are not, the attributes  *)
(* of the group are as before the call, the failure reaches the caller   *)
(* and the handle is closed                                              *)
C8_PartialFailure ==
    \A p \in Procs :
        LET r == proc[p]
            g == r.grp_name
        IN
        (Done(p) /\ r.op \in Writers /\ r.exc = "SerializationFailure") =>
            /\ \A i \in 1..Len(r.results) :
                 /\ i < r.k =>
                      /\ g \o <<r.results[i][1]>> \in DOMAIN store
                      /\ store[g \o <<r.results[i][1]>>] = r.results[i][2]
                 /\ i > r.k => g \o <<r.results[i][1]>> \notin DOMAIN store
            /\ GroupAttrs(attrs, g) = GroupAttrs(r.preAttrs, g)
            /\ r.handle = "closed"

(* C9: a write whose open attempts all fail ends with the open error and *)
(* leaves the file, every node and every attribute as they were; nothing *)
(* is written before a handle is there                                   *)
C9_OpenFailureLeavesStore ==
    \A p \in Procs :
        LET r == proc[p]
            unchanged == store = r.preStore /\ attrs = r.preAttrs
                         /\ fileExists = r.preFile
        IN
        r.op \in Writers =>
            /\ r.handle = "none" => unchanged
            /\ r.exc = "OpenError" => unchanged
            /\ (Done(p) /\ r.fails >= r.count) =>
                 (r.exc = "OpenError" /\ r.attempts = r.count)

C9_Witness ==
    \E p \in Procs :
        /\ Done(p)
        /\ proc[p].op \in Writers
        /\ proc[p].exc = "OpenError"
        /\ proc[p].attempts = DefaultCount
        /\ <<"res", "a">> \in DOMAIN store
        /\ store = proc[p].preStore

(* C10: check_output changes nothing: it opens the file only when it     *)
(* exists, and read-only; file, nodes and attributes stay as they were;  *)
(* no handle is open when it returns or raises                           *)
C10_CheckOutputReadOnly ==
    \A p \in Procs :
        LET r == proc[p] IN
        r.op = "check_output" =>
            /\ store = r.preStore
            /\ attrs = r.preAttrs
            /\ fileExists = r.preFile
            /\ r.attempts > 0 => (r.preFile /\ r.mode = "r")
            /\ Done(p) => (r.handle # "open" /\ r.closes = r.yields)

C10_Witness ==
    \E p \in Procs :
        /\ Done(p)
        /\ proc[p].op = "check_output"
        /\ proc[p].preFile
        /\ ~Contains(store, proc[p].grp_name)
        /\ proc[p].ret = "False"
        /\ proc[p].exc = None
        /\ proc[p].closes = 1
        /\ proc[p].handle = "closed"

(* C11: parse_h5 by the number of colons: one colon gives the file path  *)
(* and the internal path on either side of it, in both modes; no colon   *)
(* gives (arg, "/") when the path is optional and an error when it is    *)
(* required; two or more colons are an error in both modes; no open is   *)
(* attempted and the file is not touched                                 *)
C11_ParseByColonCount ==
    \A p \in Procs :
        LET r == proc[p]
            n == Cardinality({ i \in 1..Len(r.arg_h5) : r.arg_h5[i] = ":" })
        IN
        (Done(p) /\ r.op = "parse_h5") =>
            /\ n = 1 =>
                 /\ r.exc = None
                 /\ Len(r.parsed) = 2
                 /\ r.parsed[1] \o <<":">> \o r.parsed[2] = r.arg_h5
            /\ (n = 0 /\ r.path_optional) =>
                 (r.exc = None /\ r.parsed = <<r.arg_h5, <<"/">> >>)
            /\ (n = 0 /\ ~r.path_optional) =>
                 (r.exc = "ValueError" /\ r.parsed = <<>>)
            /\ n >= 2 => (r.exc = "ValueError" /\ r.parsed = <<>>)
            /\ r.attempts = 0 /\ r.sleeps = 0 /\ r.handle = "none"
            /\ store = r.preStore /\ attrs = r.preAttrs /\ fileExists = r.preFile

C11_Witness ==
    \E p \in Procs :
        /\ Done(p)
        /\ proc[p].op = "parse_h5"
        /\ ~proc[p].path_optional
        /\ proc[p].arg_h5 = <<"f", ":", "g">>
        /\ proc[p].parsed = << <<"f">>, <<"g">> >>
        /\ proc[p].exc = None

(* C12: safe_open_h5 whose open first succeeds on attempt k = fails + 1: *)
(* the handle is yielded after exactly k attempts and k - 1 sleeps, and  *)
(* these numbers stay as they are afterwards (no attempt after the       *)
(* success); it is yielded whenever k is within the budget; a sleep      *)
(* comes only directly after a failed attempt that is not the last one   *)
(* permitted; every sleep lasts between 0 and wait                       *)
C12_RetryStateMachine ==
    \A p \in Procs :
        LET r == proc[p] IN
        r.op = "acquire" =>
            /\ r.yields >= 1 =>
                 (r.yields = 1 /\ r.attempts = r.fails + 1 /\ r.sleeps = r.fails)
            /\ (Done(p) /\ r.fails + 1 <= r.count) => r.yields = 1
            /\ r.pc = "sleep" =>
                 /\ r.yields = 0 /\ r.handle = "none"
                 /\ r.attempts >= 1 /\ r.attempts < r.count
                 /\ r.sleeps = r.attempts - 1
            /\ r.sleeps <= r.attempts /\ r.attempts <= r.sleeps + 1
            /\ r.dur >= 0 /\ r.dur <= r.wait

C12_Witness ==
    \E p \in Procs :
        /\ proc[p].op = "acquire"
        /\ proc[p].handle = "closed"
        /\ proc[p].count = MaxCount
        /\ proc[p].yields = 1
        /\ proc[p].attempts = MaxCount
        /\ proc[p].sleeps = MaxCount - 1

(* the attributes store_args rewrites for the arguments args *)
Rewritten(args) ==
    {"cmdline", "pwd", "datetime"}
        \cup { "arg_" \o x : x \in { y \in DOMAIN args : args[y] # None } }

(* C13: a write to a group that exists, unless the open or a             *)
(* serialization failed, completes without error on that same group:     *)
(* every child the group had is deleted (a name written again holds the  *)
(* value of this call), every attribute that is not rewritten keeps its  *)
(* value, and cmdline, pwd, datetime and arg_x of the non-null arguments *)
(* hold the values of this call                                          *)
C13_RewriteExistingGroup ==
    \A p \in Procs :
        LET r == proc[p]
            g == r.grp_name
        IN
        ( /\ Done(p)
          /\ r.op \in Writers
          /\ r.preFile
          /\ Contains(r.preStore, g)
          /\ r.exc \notin {"OpenError", "SerializationFailure"} ) =>
            /\ r.exc = None
            /\ Contains(store, g)
            /\ \A c \in Keys(r.preStore, g) :
                 c \notin (Names(r.results) \cup DebugChild(r)) =>
                     c \notin Keys(store, g)
            /\ \A i \in 1..Len(r.results) :
                 /\ g \o <<r.results[i][1]>> \in DOMAIN store
                 /\ store[g \o <<r.results[i][1]>>] = r.results[i][2]
            /\ \A x \in DOMAIN r.preAttrs :
                 (x[1] = g /\ x[2] \notin Rewritten(r.args)) =>
                     AttrOf(attrs, g, x[2]) = r.preAttrs[x]
            /\ AttrOf(attrs, g, "cmdline") = Join(Argv, " ")
            /\ AttrOf(attrs, g, "pwd") = Cwd
            /\ AttrOf(attrs, g, "datetime") = IsoFormat(clock)
            /\ \A x \in DOMAIN r.args :
                 r.args[x] # None => AttrOf(attrs, g, "arg_" \o x) = r.args[x]

(* one step of a write of process p, as the file shows it *)
WriteStepOrder(p) ==
    LET r == proc[p]
        g == r.grp
        d == g \o <<"debug">>
        n == Len(r.results)
    IN
    (r.op \in Writers /\ proc'[p].op = r.op) =>
        (* the group is created, or an old node is unlinked, before any value *)
        (* is serialized and before the stamp                                 *)
        /\ ( \/ r.grp_name \notin DOMAIN store /\ r.grp_name \in DOMAIN store'
             \/ \E q \in DOMAIN store \ DOMAIN store' : ~IsPrefix(d, q) ) =>
               (r.k <= 1 /\ r.pc \in {"lookup", "clear"})
        (* the values are serialized one by one in the order of the caller *)
        /\ proc'[p].k # r.k =>
               \/ r.pc = "lookup" /\ proc'[p].k = 1
               \/ /\ proc'[p].k = r.k + 1
                  /\ r.k <= n
                  /\ r.todo = {}
                  /\ store'[g \o <<r.results[r.k][1]>>] = r.results[r.k][2]
        (* the group is stamped after every value has been serialized *)
        /\ (\E x \in DOMAIN attrs' : x \notin DOMAIN attrs \/ attrs'[x] # attrs[x]) =>
               /\ r.k = n + 1
               /\ \A i \in 1..n : store[g \o <<r.results[i][1]>>] = r.results[i][2]
               /\ AttrOf(attrs', g, "datetime") = IsoFormat(clock)
               /\ store' = store
        (* the debug subgroup is deleted and created after the stamp *)
        /\ (\E q \in (DOMAIN store \ DOMAIN store') \cup (DOMAIN store' \ DOMAIN store) :
                IsPrefix(d, q)) =>
               /\ r.k = n + 1
               /\ r.pc = "debug"
               /\ AttrOf(attrs, g, "datetime") = IsoFormat(clock)
               /\ AttrOf(attrs, g, "cmdline") = Join(Argv, " ")
        (* the handle is released last *)
        /\ r.handle # "open" => (store' = store /\ attrs' = attrs)
        /\ (r.handle = "open" /\ proc'[p].handle = "closed") =>
               /\ store' = store /\ attrs' = attrs
               /\ r.exc = None =>
                    /\ r.k = n + 1
                    /\ AttrOf(attrs, g, "datetime") = IsoFormat(clock)
                    /\ DebugChild(r) \subseteq Keys(store, g)

(* C14: inside one write the group is cleared or created first, the      *)
(* named values are then serialized in the order of the caller, the      *)
(* group is stamped only after every value, the debug subgroup is        *)
(* deleted and recreated only after the stamp, and the handle is         *)
(* released last                                                         *)
C14_OrderOfSteps == [][\A p \in Procs : WriteStepOrder(p)]_vars

C14_Witness ==
    \E p \in Procs :
        /\ Done(p)
        /\ proc[p].op = "write_part_output"
        /\ proc[p].exc = None
        /\ proc[p].handle = "closed"
        /\ Len(proc[p].results) = 2
        /\ proc[p].args.debug = "True"
        /\ Keys(proc[p].preStore, proc[p].grp_name) # {}
        /\ proc[p].grp_name \o <<"debug", "x_y">> \in DOMAIN store

(* C15: after a write_part_output call that requests debugging, unless   *)
(* the open or a serialization failed, the debug subgroup of the group   *)
(* holds exactly the cache entries whose synthesized name is not one of  *)
(* the names of that call: nothing of an earlier debug dump is left      *)
C15_DebugRebuilt ==
    \A p \in Procs :
        LET r == proc[p]
            d == r.grp_name \o <<"debug">>
        IN
        ( /\ Done(p)
          /\ r.op = "write_part_output"
          /\ r.exc \notin {"OpenError", "SerializationFailure"}
          /\ r.args.debug = "True" ) =>
            /\ d \in DOMAIN store
            /\ Keys(store, d) =
                 { DebugName(key) :
                     key \in { x \in CacheKeys : DebugName(x) \notin Names(r.results) } }

(* an exception raised by the block that uses the handle *)
BodyErrors == {"KeyError", "NameExists", "SerializationFailure", "TypeError", "UserError"}

NoRetryOfBody(p) ==
    LET r == proc[p]
        n == proc'[p]
    IN
    (* once a handle is acquired the call opens and sleeps no more *)
    /\ (r.handle # "none" /\ n.op = r.op) =>
          (n.attempts = r.attempts /\ n.sleeps = r.sleeps /\ n.yields = r.yields)
    (* the error is raised under an open handle and leads to the close *)
    /\ (r.exc = None /\ n.exc \in BodyErrors) =>
          (r.handle = "open" /\ n.handle = "open" /\ n.pc = "close")
    (* it stays in flight, the block does nothing more, and it reaches the *)
    (* caller after the handle is closed                                   *)
    /\ r.exc \in BodyErrors =>
          /\ r.pc \in {"close", "done"}
          /\ store' = store /\ attrs' = attrs
          /\ n.op = r.op => (n.exc = r.exc /\ n.pc = "done")
          /\ r.pc = "done" => (r.handle = "closed" /\ r.closes = 1 /\ r.ret = None)

(* C16: only a failed open is retried: an exception raised by the code   *)
(* that uses an acquired handle (group lookup, child deletion,           *)
(* serialization, the emptiness test of check_output) causes no further  *)
(* open attempt and no sleep, is not swallowed, and reaches the caller   *)
(* after the handle is closed                                            *)
C16_BodyErrorsNotRetried == [][\A p \in Procs : NoRetryOfBody(p)]_vars

C16_Witness ==
    \E p \in Procs :
        /\ Done(p)
        /\ proc[p].op \in Writers
        /\ proc[p].exc = "SerializationFailure"
        /\ proc[p].fails = 1
        /\ proc[p].attempts = 2
        /\ proc[p].sleeps = 1
        /\ proc[p].closes = 1

(* C17: a write to the group G leaves every node that is not G or below  *)
(* G as it was before the call, with its attributes: nothing outside G   *)
(* is deleted, created or modified                                       *)
C17_WriteFrame ==
    \A p \in Procs :
        LET r == proc[p]
            g == r.grp_name
        IN
        r.op \in Writers =>
            /\ \A q \in DOMAIN r.preStore \cup DOMAIN store :
                 ~IsPrefix(g, q) =>
                     /\ q \in DOMAIN r.preStore
                     /\ q \in DOMAIN store
                     /\ store[q] = r.preStore[q]
            /\ \A x \in DOMAIN r.preAttrs \cup DOMAIN attrs :
                 ~IsPrefix(g, x[1]) =>
                     /\ x \in DOMAIN r.preAttrs
                     /\ x \in DOMAIN attrs
                     /\ attrs[x] = r.preAttrs[x]

(* the children that the write of process p put into the group are there *)
ChildrenIntact(p) ==
    \A i \in 1..Len(proc[p].results) :
        LET q == proc[p].grp_name \o <<proc[p].results[i][1]>> IN
        q \in DOMAIN store /\ store[q] = proc[p].results[i][2]

AttemptBudget(count) == IF count >= 1 THEN count ELSE 1

(* C19: for every budget, 0 and negative ones included, and every number *)
(* of failing opens, safe_open_h5 makes at most max(1, count) attempts   *)
(* and then yields the handle or raises the open error; with a budget of *)
(* 0 or less it makes exactly one attempt and never sleeps               *)
C19_AcquisitionTerminates ==
    /\ [](\A p \in Procs :
            LET r == proc[p] IN
            r.op = "acquire" =>
                /\ r.attempts <= AttemptBudget(r.count)
                /\ r.count <= 0 =>
                     /\ r.sleeps = 0
                     /\ r.pc # "sleep"
                     /\ r.pc # "open" => r.attempts = 1)
    /\ \A p \in Procs :
          (proc[p].op = "acquire" /\ proc[p].pc \in {"open", "sleep"})
              ~> (proc[p].handle = "open" \/ proc[p].exc = "OpenError")

C19_Witness ==
    \E p \in Procs :
        /\ Done(p)
        /\ proc[p].op = "acquire"
        /\ proc[p].count < 0
        /\ proc[p].fails = MaxCount
        /\ proc[p].exc = "OpenError"
        /\ proc[p].attempts = 1
        /\ proc[p].sleeps = 0

====
